---- MODULE Spec2Model ----
(***************************************************************************)
(* Random-hyperplane LSH index: HyperIndex (src/src/hyperindex.rs),        *)
(* MultiIndex and autotune_planes (src/src/multiindex.rs), dot             *)
(* (src/src/vector.rs).                                                    *)
(*                                                                         *)
(* A panicking call is modelled by a result record [panic |-> TRUE, ...]:  *)
(* every fallible operator returns [panic, value].                         *)
(***************************************************************************)
EXTENDS Integers, Sequences, FiniteSets, TLC

\* ------------------------------------------------------------------ bounds
\* Number of MultiIndex.add calls in one behaviour.
MaxAdds == 2
\* Largest `count` passed to MultiIndex.nearest.
MaxCount == 2

\* Vector components: the sign of a dot product is all the index reads.
Comp == {-1, 1}
\* Dimensions an index is built with, and lengths of the vectors callers pass.
Dims == {1, 2}
\* index_count (L) and hyperplane_count (H) passed to MultiIndex::new.
TableCounts == {0, 1, 2}
PlaneCounts == {0, 1, 2}
\* Opaque item keys (the generic K).
ItemKeys == {1, 2}
\* Values a caller's distance function returns (comparable f32 values; no NaN,
\* so partial_cmp is always Some and Ord::cmp never takes its Equal default).
Distances == {0, 1}

VectorsOf(d) == [1..d -> Comp]
Vectors == UNION {VectorsOf(d) : d \in Dims}
\* Directions random_unit_vector may return: only the direction of a plane
\* matters to `dot(plane, v) > 0`; one representative per open half-space pair.
PlaneVectors(d) == {p \in VectorsOf(d) : p[1] = 1}

Min(a, b) == IF a < b THEN a ELSE b

Ok(v) == [panic |-> FALSE, value |-> v]
Panic == [panic |-> TRUE, value |-> 0]

\* ---------------------------------------------------------------- vector.rs
RECURSIVE dot_acc(_, _, _)
dot_acc(a, b, index) ==
    IF index > Len(a) THEN 0 ELSE a[index] * b[index] + dot_acc(a, b, index + 1)

\* dot: assert_eq!(a.len(), b.len()), then the accumulated sum of products.
dot(a, b) == IF Len(a) # Len(b) THEN Panic ELSE Ok(dot_acc(a, b, 1))

\* ------------------------------------------------------------- hyperindex.rs
\* HyperIndex::new: hyperplane_count planes of `dimension` components, no groups.
HyperIndex_new(dimension, ps) ==
    [planes |-> ps, groups |-> <<>>, dims |-> dimension]

\* Faulty variant of HyperIndex::key: the loop stops one plane early.
HyperIndex_key_short(idx, vector) ==
    IF \E i \in 1..(Len(idx.planes) - 1) : dot(idx.planes[i], vector).panic
    THEN Panic
    ELSE Ok([i \in 1..(Len(idx.planes) - 1) |-> dot(idx.planes[i], vector).value > 0])

\* HyperIndex::key: one bit per plane, bit = dot(plane, vector) > 0; the first
\* dot whose assertion fails aborts the call. With no planes no dot is taken.
HyperIndex_key(idx, vector) ==
    IF \E i \in 1..Len(idx.planes) : dot(idx.planes[i], vector).panic
    THEN Panic
    ELSE Ok([i \in 1..Len(idx.planes) |-> dot(idx.planes[i], vector).value > 0])

\* groups.entry(bits).or_insert(Vec::new()).push(key)
entry_push(groups, bits, k) ==
    IF bits \in DOMAIN groups
    THEN [groups EXCEPT ![bits] = Append(@, k)]
    ELSE [b \in (DOMAIN groups) \cup {bits} |->
            IF b = bits THEN <<k>> ELSE groups[b]]

\* Faulty variant of HyperIndex::add: insert() instead of entry().or_insert().push(),
\* so the bucket is replaced by the new item.
HyperIndex_add_replace(idx, k, vector) ==
    LET bits == HyperIndex_key(idx, vector) IN
    IF bits.panic THEN Panic
    ELSE Ok([idx EXCEPT !.groups =
               [b \in (DOMAIN idx.groups) \cup {bits.value} |->
                  IF b = bits.value THEN <<k>> ELSE idx.groups[b]]])

\* HyperIndex::add: the index after the call, or the panic of key().
HyperIndex_add(idx, k, vector) ==
    LET bits == HyperIndex_key(idx, vector) IN
    IF bits.panic THEN Panic
    ELSE Ok([idx EXCEPT !.groups = entry_push(idx.groups, bits.value, k)])

\* HyperIndex::group: Option<&Vec<K>> as a sequence of zero or one bucket.
HyperIndex_group(idx, bits) ==
    IF bits \in DOMAIN idx.groups THEN <<idx.groups[bits]>> ELSE <<>>

\* ------------------------------------------------------------- multiindex.rs
\* Faulty variant of vary_key: the unvaried key is not probed.
MultiIndex_vary_key_flips(bits) ==
    [i \in 1..Len(bits) |-> [bits EXCEPT ![i] = ~bits[i]]]

\* MultiIndex::vary_key: the key itself, then the key with bit i flipped for
\* every i in 0..key.len().
MultiIndex_vary_key(bits) ==
    <<bits>> \o [i \in 1..Len(bits) |-> [bits EXCEPT ![i] = ~bits[i]]]

Range(s) == {s[i] : i \in DOMAIN s}

\* The items of the buckets of idx at the varied keys of bits.
probe(idx, bits) ==
    UNION {UNION {Range(g) : g \in Range(HyperIndex_group(idx, k))} :
             k \in Range(MultiIndex_vary_key(bits))}

\* MultiIndex::nearest_points_set: key, vary_key, group, flatten, collect into
\* a HashSet. A panic of any key() aborts the call.
MultiIndex_nearest_points_set(idxs, point) ==
    IF \E i \in DOMAIN idxs : HyperIndex_key(idxs[i], point).panic
    THEN Panic
    ELSE Ok(UNION {probe(idxs[i], HyperIndex_key(idxs[i], point).value) :
                     i \in DOMAIN idxs})

\* Faulty variant of DistanceNode::cmp: the comparison is reversed.
DistanceNode_cmp_reversed(a, b) ==
    IF a.distance > b.distance THEN "Less"
    ELSE IF a.distance < b.distance THEN "Greater" ELSE "Equal"

\* DistanceNode::cmp: partial_cmp on the distances (comparable values, so the
\* unwrap_or default is not taken).
DistanceNode_cmp(a, b) ==
    IF a.distance < b.distance THEN "Less"
    ELSE IF a.distance > b.distance THEN "Greater" ELSE "Equal"

\* Every arrangement of a set of nodes in a Vec (parallel collect of a HashSet).
Arrangements(nodes) ==
    {s \in [1..Cardinality(nodes) -> nodes] :
        \A i, j \in 1..Cardinality(nodes) : i # j => s[i] # s[j]}

\* Vec::sort_unstable: the order of equal elements is unspecified, so every
\* arrangement in which no element is Greater than a later one is an outcome.
sort_unstable(nodes) ==
    {s \in Arrangements(nodes) :
        \A i, j \in 1..Len(s) : i < j => DistanceNode_cmp(s[i], s[j]) # "Greater"}

\* Faulty variants of Vec::truncate: one element too many; the tail kept
\* instead of the head.
truncate_plus_one(s, count) == SubSeq(s, 1, Min(count + 1, Len(s)))

truncate_tail(s, count) == SubSeq(s, Len(s) - Min(count, Len(s)) + 1, Len(s))

\* Vec::truncate(count): the first `count` elements, all of them if fewer.
truncate(s, count) == SubSeq(s, 1, Min(count, Len(s)))

\* MultiIndex::nearest: the returns the call can produce. Every candidate of
\* nearest_points_set is scored once, the nodes are sorted and truncated.
MultiIndex_nearest(idxs, point, count, get_dist) ==
    LET s == MultiIndex_nearest_points_set(idxs, point) IN
    IF s.panic THEN {Panic}
    ELSE {Ok(truncate(r, count)) :
            r \in sort_unstable({[key |-> a, distance |-> get_dist[a]] : a \in s.value})}

\* MultiIndex::new: index_count sub-indices of the same dimension and plane
\* count, each with its own random planes.
MultiIndex_new(dimension, ps) ==
    [i \in 1..Len(ps) |-> HyperIndex_new(dimension, ps[i])]

\* ------------------------------------------------------------------- state
VARIABLES
    indices,    \* MultiIndex.indices: Vec<HyperIndex>, each [planes, groups, dims]
    config,     \* the arguments MultiIndex::new was called with
    pc,         \* "idle", or "adding" while MultiIndex.add's par_iter_mut runs
    call,       \* the arguments of the call in progress or last returned, and
                \* for add the indices as they were when the call started
    pending,    \* sub-indices the parallel for_each has not yet visited
    panicked,   \* a task of the running for_each has panicked
    ret,        \* outcome and value of the last returned call
    performed,  \* per sub-index, the HyperIndex.add calls that completed:
                \* a sequence of [key, vector, bits]
    added,      \* the (key, vector) pairs of the MultiIndex.add calls that returned
    nadds       \* MultiIndex.add calls started

mvars == <<indices, config, pc, call, pending, panicked, ret, performed, added, nadds>>

NoCall == [op |-> "none", key |-> 0, vector |-> <<>>, count |-> 0,
           get_dist |-> <<>>, indices0 |-> <<>>]

NoRet == [outcome |-> "none", value |-> {}]

InitMulti(dimensions, tables, planecounts) ==
    \E d \in dimensions, l \in tables, h \in planecounts :
      \E ps \in [1..l -> [1..h -> PlaneVectors(d)]] :
        /\ indices = MultiIndex_new(d, ps)
        /\ config = [dimension |-> d, index_count |-> l, hyperplane_count |-> h]
        /\ pc = "idle"
        /\ call = NoCall
        /\ pending = {}
        /\ panicked = FALSE
        /\ ret = NoRet
        /\ performed = [i \in 1..l |-> <<>>]
        /\ added = {}
        /\ nadds = 0

\* MultiIndex::add, entry: par_iter_mut over all sub-indices is started.
AddCall(k, vector) ==
    /\ pc = "idle"
    /\ nadds < MaxAdds
    /\ pc' = "adding"
    /\ call' = [NoCall EXCEPT !.op = "add", !.key = k, !.vector = vector,
                              !.indices0 = indices]
    /\ pending' = DOMAIN indices
    /\ panicked' = FALSE
    /\ nadds' = nadds + 1
    /\ UNCHANGED <<indices, config, ret, performed, added>>

\* MultiIndex::add, one task of the for_each: idx.add(key.clone(), vector) on
\* sub-index i; tasks run in any order.
AddTask(i) ==
    /\ pc = "adding"
    /\ i \in pending
    /\ LET r == HyperIndex_add(indices[i], call.key, call.vector) IN
         IF r.panic
         THEN /\ panicked' = TRUE
              /\ UNCHANGED <<indices, performed>>
         ELSE /\ indices' = [indices EXCEPT ![i] = r.value]
              /\ performed' = [performed EXCEPT ![i] = Append(@,
                    [key |-> call.key, vector |-> call.vector,
                     bits |-> HyperIndex_key(indices[i], call.vector).value])]
              /\ UNCHANGED panicked
    /\ pending' = pending \ {i}
    /\ UNCHANGED <<config, pc, call, ret, added, nadds>>

\* Faulty variant of the join: the call returns while one task is still
\* outstanding.
JoinedEarly == Cardinality(pending) <= 1

\* for_each returns only when every task has finished.
Joined == pending = {}

\* MultiIndex::add, return: the join of the for_each; a task's panic is
\* propagated to the caller.
AddReturn ==
    /\ pc = "adding"
    /\ Joined
    /\ pc' = "idle"
    /\ pending' = {}
    /\ ret' = [outcome |-> IF panicked THEN "panic" ELSE "ok", value |-> {}]
    /\ added' = IF panicked THEN added
                ELSE added \cup {[key |-> call.key, vector |-> call.vector]}
    /\ UNCHANGED <<indices, config, call, panicked, performed, nadds>>

\* MultiIndex::nearest_points_set(point) called on the current contents.
NearestPointsSet(point) ==
    /\ pc = "idle"
    /\ LET r == MultiIndex_nearest_points_set(indices, point) IN
         ret' = [outcome |-> IF r.panic THEN "panic" ELSE "ok", value |-> r.value]
    /\ call' = [NoCall EXCEPT !.op = "nearest_points_set", !.vector = point]
    /\ UNCHANGED <<indices, config, pc, pending, panicked, performed, added, nadds>>

\* MultiIndex::nearest(point, count, get_dist) called on the current contents.
\* The call is read-only, so a behaviour ends with it: every pair of index
\* contents and query is still reached.
Nearest(point, count, get_dist) ==
    /\ pc = "idle"
    /\ \E r \in MultiIndex_nearest(indices, point, count, get_dist) :
         ret' = [outcome |-> IF r.panic THEN "panic" ELSE "ok", value |-> r.value]
    /\ call' = [NoCall EXCEPT !.op = "nearest", !.vector = point,
                              !.count = count, !.get_dist = get_dist]
    /\ pc' = "done"
    /\ UNCHANGED <<indices, config, pending, panicked, performed, added, nadds>>

\* ------------------------------------------------- autotune_planes (state)
VARIABLES
    tune_pc,           \* "off", "start", "loop", "returned" or "panicked"
    vectors_len,       \* vectors.len()
    group_size,        \* the target occupancy (an integer-valued f32)
    overflow_checks,   \* the build panics on integer overflow (debug profile)
    initial,           \* the first plane count of the search
    underflow,         \* the u32 subtraction of line 62 went below zero
    planes,            \* loop variable of `for planes in initial..255`
    best_plane_count,
    best_group_avg,
    reported,          \* avg of stats() for the plane counts that can still be returned
    tune_ret           \* the returned plane count

tvars == <<tune_pc, vectors_len, group_size, overflow_checks, initial, underflow,
           planes, best_plane_count, best_group_avg, reported, tune_ret>>

vars == <<mvars, tvars>>

\* Sample sizes and targets autotune_planes is called with.
MaxSamples == 5
MaxTarget == 3

\* Exclusive end of `for planes in initial..255`, and the upper clamp.
PlaneCeiling == 255
\* Lower clamp of the estimate, and the bias subtracted from it.
PlaneFloor == 2
\* The default of checked_ilog2().unwrap_or(1).
Ilog2Default == 1
\* u32 values are two 16-bit limbs [hi, lo], so that a wrapped difference is
\* the value the machine holds.
Limb == 2 ^ 16

RECURSIVE ilog2(_)
\* floor(log2 n) for n >= 1.
ilog2(n) == IF n <= 1 THEN 0 ELSE 1 + ilog2(n \div 2)

\* usize::checked_ilog2().unwrap_or(1)
checked_ilog2_or_default(n) == IF n = 0 THEN Ilog2Default ELSE ilog2(n)

\* group_size.log2().floor() as u32, for group_size >= 1.
log2_floor_as_u32(t) == ilog2(t)

\* a - b on u32: [underflow, value]; value is the wrapped difference.
u32_sub(a, b) ==
    IF b > a
    THEN [underflow |-> TRUE, value |-> [hi |-> Limb - 1, lo |-> Limb - (b - a)]]
    ELSE [underflow |-> FALSE, value |-> [hi |-> 0, lo |-> a - b]]

\* u32::clamp(lo, hi) followed by `as u8` (hi fits a u8).
u32_clamp_as_u8(x, lo, hi) ==
    IF x.hi > 0 THEN hi ELSE IF x.lo < lo THEN lo ELSE IF x.lo > hi THEN hi ELSE x.lo

\* Lines 62-63: the start estimate and whether its subtraction underflowed.
initial_estimate(n, t) ==
    LET d == u32_sub(checked_ilog2_or_default(n), log2_floor_as_u32(t)) IN
    [underflow |-> d.underflow,
     value |-> u32_clamp_as_u8(d.value, PlaneFloor, PlaneCeiling) - 2]

\* f32 values as fractions; 0/0 is NaN. f32::MAX is above every average.
f32_MAX == [num |-> 1000000, den |-> 1]
f32_of(n) == [num |-> n, den |-> 1]
is_nan(a) == a.den = 0
f32_lt(a, b) == ~is_nan(a) /\ ~is_nan(b) /\ a.num * b.den < b.num * a.den
f32_gt(a, b) == f32_lt(b, a)

RECURSIVE pow2_from(_, _, _)
pow2_from(acc, p, cap) ==
    IF p = 0 \/ acc >= cap THEN Min(acc, cap) ELSE pow2_from(2 * acc, p - 1, cap)

\* min(2^p, cap), for cap >= 1
pow2_capped(p, cap) == pow2_from(1, p, cap)

\* The averages stats() can report for an index of `p` random planes holding
\* n vectors: the bucket sizes sum to n, and the number of non-empty buckets
\* is between 1 and min(n, 2^p); an empty index reports 0/0.
sample_avgs(n, p) ==
    IF n = 0 THEN {[num |-> 0, den |-> 0]}
    ELSE {[num |-> n, den |-> g] : g \in 1..pow2_capped(p, n)}

InitTuneOff ==
    /\ tune_pc = "off"
    /\ vectors_len = 0
    /\ group_size = 1
    /\ overflow_checks = FALSE
    /\ initial = 0
    /\ underflow = FALSE
    /\ planes = 0
    /\ best_plane_count = 0
    /\ best_group_avg = f32_MAX
    /\ reported = <<>>
    /\ tune_ret = 0

\* autotune_planes, lines 62-67: the start estimate. On underflow a build with
\* overflow checks panics; without them the difference wraps.
TuneStart ==
    /\ tune_pc = "start"
    /\ LET e == initial_estimate(vectors_len, group_size) IN
         /\ underflow' = e.underflow
         /\ IF e.underflow /\ overflow_checks
            THEN /\ tune_pc' = "panicked"
                 /\ UNCHANGED <<initial, planes>>
            ELSE /\ tune_pc' = "loop"
                 /\ initial' = e.value
                 /\ planes' = e.value
    /\ best_plane_count' = 0
    /\ best_group_avg' = f32_MAX
    /\ UNCHANGED <<vectors_len, group_size, overflow_checks, reported, tune_ret, mvars>>

\* The guard of the early return (line 87).
below_target(avg, t) == f32_lt(avg, t)

\* Faulty variant of the update guard: the `avg > group_size` conjunct is
\* missing.
improves_any(avg, best, t) == f32_lt(avg, best)

\* The guard of the best-candidate update (line 81).
improves(avg, best, t) == f32_lt(avg, best) /\ f32_gt(avg, t)

\* One iteration of the loop, lines 68-90: build the index, read stats(),
\* update the best candidate, return it once the average is below the target.
TuneIteration ==
    /\ tune_pc = "loop"
    /\ planes < PlaneCeiling
    /\ \E avg \in sample_avgs(vectors_len, planes) :
         LET better == improves(avg, best_group_avg, f32_of(group_size))
             best == IF better THEN planes ELSE best_plane_count
         IN
         /\ best_group_avg' = IF better THEN avg ELSE best_group_avg
         /\ best_plane_count' = best
         /\ reported' = [p \in {best} \cap ((DOMAIN reported) \cup {planes}) |->
                            IF p = planes THEN avg ELSE reported[p]]
         /\ IF below_target(avg, f32_of(group_size))
            THEN /\ tune_pc' = "returned"
                 /\ tune_ret' = best
                 /\ UNCHANGED planes
            ELSE /\ planes' = planes + 1
                 /\ UNCHANGED <<tune_pc, tune_ret>>
    /\ UNCHANGED <<vectors_len, group_size, overflow_checks, initial, underflow, mvars>>

\* Line 92: the range is exhausted.
TuneExhausted ==
    /\ tune_pc = "loop"
    /\ planes = PlaneCeiling
    /\ tune_pc' = "returned"
    /\ tune_ret' = best_plane_count
    /\ UNCHANGED <<vectors_len, group_size, overflow_checks, initial, underflow,
                   planes, best_plane_count, best_group_avg, reported, mvars>>

\* ---------------------------------------------------------- specifications
Init == InitMulti(Dims, TableCounts, PlaneCounts) /\ InitTuneOff

Next ==
    \/ \E k \in ItemKeys, vector \in Vectors : AddCall(k, vector) /\ UNCHANGED tvars
    \/ \E i \in DOMAIN indices : AddTask(i) /\ UNCHANGED tvars
    \/ AddReturn /\ UNCHANGED tvars
    \/ \E point \in Vectors : NearestPointsSet(point) /\ UNCHANGED tvars

Spec == Init /\ [][Next]_vars

InitNearest == InitMulti(Dims, TableCounts, PlaneCounts) /\ InitTuneOff

\* Queries of an index built from vectors of its own dimension, with a point
\* of that dimension (calls with other vectors are those of Next).
NextNearest ==
    \/ \E k \in ItemKeys, vector \in VectorsOf(config.dimension) :
         AddCall(k, vector) /\ UNCHANGED tvars
    \/ \E i \in DOMAIN indices : AddTask(i) /\ UNCHANGED tvars
    \/ AddReturn /\ UNCHANGED tvars
    \/ \E point \in VectorsOf(config.dimension), count \in 0..MaxCount,
          get_dist \in [ItemKeys -> Distances] :
         Nearest(point, count, get_dist) /\ UNCHANGED tvars

SpecNearest == InitNearest /\ [][NextNearest]_vars

InitTune ==
    /\ InitMulti({1}, {0}, {0})
    /\ tune_pc = "start"
    /\ vectors_len \in 0..MaxSamples
    /\ group_size \in 1..MaxTarget
    /\ overflow_checks \in BOOLEAN
    /\ initial = 0
    /\ underflow = FALSE
    /\ planes = 0
    /\ best_plane_count = 0
    /\ best_group_avg = f32_MAX
    /\ reported = <<>>
    /\ tune_ret = 0

NextTune == TuneStart \/ TuneIteration \/ TuneExhausted

SpecTune == InitTune /\ [][NextTune]_vars

\* ------------------------------------------------------------------ claims
\* MultiIndex.nearest has returned a list.
NearestReturned == pc = "done" /\ call.op = "nearest" /\ ret.outcome = "ok"

\* The candidate set of the returned query.
Candidates == MultiIndex_nearest_points_set(indices, call.vector).value

Keys(r) == {r[i].key : i \in 1..Len(r)}

\* C1: MultiIndex.nearest returns at most `count` entries and no two returned
\* entries have the same key, whatever was added (repeated keys, a key under
\* several vectors), whatever the query point, count and distance function.
C1_AtMostCountDistinctKeys ==
    NearestReturned =>
        /\ Len(ret.value) <= call.count
        /\ \A i, j \in 1..Len(ret.value) :
              i # j => ret.value[i].key # ret.value[j].key

\* C1 witness: in an index of two tables one key was added twice, under
\* different vectors, and a query with count 2 returns it once.
C1_Witness ==
    /\ NearestReturned
    /\ call.count = 2
    /\ Len(ret.value) = 1
    /\ Len(indices) = 2
    /\ \E a, b \in added : a.key = b.key /\ a.vector # b.vector

RECURSIVE SumOver(_, _)
\* The sum of f over a finite set.
SumOver(f, S) ==
    IF S = {} THEN 0
    ELSE LET x == CHOOSE y \in S : TRUE IN f[x] + SumOver(f, S \ {x})

\* The sum of the lengths of all buckets of a bucket map.
TotalBucketLen(groups) ==
    SumOver([b \in DOMAIN groups |-> Len(groups[b])], DOMAIN groups)

BucketLen(groups, b) == IF b \in DOMAIN groups THEN Len(groups[b]) ELSE 0

\* A HyperIndex.add on sub-index i: one bucket is longer by one (it is created
\* if it was absent), every other bucket is as it was.
OneBucketGrew(i) ==
    LET g == indices[i].groups
        h == indices'[i].groups
    IN \E b \in DOMAIN h :
         /\ BucketLen(h, b) = BucketLen(g, b) + 1
         /\ DOMAIN h = (DOMAIN g) \cup {b}
         /\ \A c \in (DOMAIN g) \ {b} : h[c] = g[c]

\* C4: in every state of a HyperIndex reached by N add calls (any keys, any
\* vectors, repeats allowed) the bucket lengths sum to N and no bucket of the
\* map is empty; each add makes exactly one bucket longer by one and leaves
\* every other bucket unchanged.
C4_BucketLengthsSumToAdds ==
    /\ [](\A i \in DOMAIN indices :
            /\ TotalBucketLen(indices[i].groups) = Len(performed[i])
            /\ \A b \in DOMAIN indices[i].groups : Len(indices[i].groups[b]) >= 1)
    /\ [][\A i \in DOMAIN indices :
            IF Len(performed'[i]) = Len(performed[i]) + 1
            THEN OneBucketGrew(i)
            ELSE indices'[i] = indices[i]]_vars

\* C4 witness: a HyperIndex of two planes after two adds of the same key that
\* fell into two buckets.
C4_Witness ==
    \E i \in DOMAIN indices :
        /\ Len(performed[i]) = 2
        /\ performed[i][1].key = performed[i][2].key
        /\ Cardinality(DOMAIN indices[i].groups) = 2
        /\ Len(indices[i].planes) = 2

\* C5: once add(k, v) was performed on a HyperIndex, group(key(v)) is present
\* and contains k in every later state; key(v) is the key the add computed,
\* on every later call, and has one bit per plane the index was built with.
C5_AddedStaysInItsGroup ==
    \A i \in DOMAIN indices :
      \A n \in 1..Len(performed[i]) :
        LET e == performed[i][n]
            bits == HyperIndex_key(indices[i], e.vector)
        IN /\ ~bits.panic
           /\ bits.value = e.bits
           /\ Len(bits.value) = config.hyperplane_count
           /\ HyperIndex_group(indices[i], bits.value) # <<>>
           /\ e.key \in Range(HyperIndex_group(indices[i], bits.value)[1])

\* C5 witness: after add(k, v) a second add of another key went into the same
\* bucket of a HyperIndex of two planes, and k is still first in it.
C5_Witness ==
    \E i \in DOMAIN indices :
        /\ Len(indices[i].planes) = 2
        /\ Len(performed[i]) = 2
        /\ performed[i][1].bits = performed[i][2].bits
        /\ performed[i][1].key # performed[i][2].key
        /\ indices[i].groups[performed[i][1].bits][1] = performed[i][1].key

\* MultiIndex.add has returned normally.
AddReturned == pc = "idle" /\ call.op = "add" /\ ret.outcome = "ok"

\* When add(k, v) returns, every sub-index holds k in its bucket for its own
\* key of v and holds exactly one entry more than when the call started.
InsertedEverywhere ==
    AddReturned =>
      \A i \in DOMAIN indices :
        LET bits == HyperIndex_key(indices[i], call.vector) IN
        /\ ~bits.panic
        /\ HyperIndex_group(indices[i], bits.value) # <<>>
        /\ call.key \in Range(HyperIndex_group(indices[i], bits.value)[1])
        /\ TotalBucketLen(indices[i].groups) =
             TotalBucketLen(call.indices0[i].groups) + 1

\* Every (k, v) whose add has returned is found by nearest_points_set(v).
StaysDiscoverable ==
    \A e \in added :
        LET s == MultiIndex_nearest_points_set(indices, e.vector) IN
        ~s.panic /\ e.key \in s.value

\* C6 as stated: add inserts into all L sub-indices before it returns, in
\* whatever order the per-sub-index inserts run, and k stays discoverable:
\* every later nearest_points_set(v) contains k.
C6_InsertedEverywhereAndDiscoverable == InsertedEverywhere /\ StaysDiscoverable

\* C6 amended: add inserts into all L sub-indices before it returns, in
\* whatever order the inserts run; when the index has at least one sub-index,
\* every later nearest_points_set(v) contains k.
C6_InsertedEverywhereDiscoverableIfTables ==
    /\ InsertedEverywhere
    /\ Len(indices) >= 1 => StaysDiscoverable

\* C6 witness: the second add of an index of two tables has returned; its two
\* inserts went into buckets of different keys.
C6_Witness ==
    /\ AddReturned
    /\ Len(indices) = 2
    /\ nadds = 2
    /\ Cardinality(added) = 2
    /\ HyperIndex_key(indices[1], call.vector) # HyperIndex_key(indices[2], call.vector)

\* C8: a vector whose length differs from the index's dimension makes
\* HyperIndex.key, HyperIndex.add, MultiIndex.add and nearest_points_set fail
\* fast, add leaving the bucket maps unchanged, in every configuration (also
\* with no planes and with no tables): no HyperIndex.add of such a vector is
\* ever performed, and a MultiIndex call with one returns by a panic.
C8_MismatchedVectorFailsFast ==
    /\ \A i \in DOMAIN indices :
         \A n \in 1..Len(performed[i]) :
            Len(performed[i][n].vector) = indices[i].dims
    /\ (pc = "idle" /\ call.op \in {"add", "nearest_points_set"}
          /\ Len(call.vector) # config.dimension) =>
         /\ ret.outcome = "panic"
         /\ call.op = "add" => indices = call.indices0

\* The number of positions in which two keys of the same length differ.
Hamming(a, b) == Cardinality({i \in 1..Len(a) : a[i] # b[i]})

\* The items of the buckets of idx whose key differs from bits in at most one
\* bit.
NearBuckets(idx, bits) ==
    UNION {Range(idx.groups[b]) :
             b \in {c \in DOMAIN idx.groups : Hamming(c, bits) <= 1}}

\* vary_key of a key of H bits is H+1 pairwise distinct keys of H bits: the
\* key and the keys at Hamming distance 1.
VaryKeyShape ==
    \A bits \in [1..config.hyperplane_count -> BOOLEAN] :
        LET ks == MultiIndex_vary_key(bits) IN
        /\ Len(ks) = config.hyperplane_count + 1
        /\ \A i, j \in 1..Len(ks) : i # j => ks[i] # ks[j]
        /\ \A i \in 1..Len(ks) : Len(ks[i]) = config.hyperplane_count
        /\ Range(ks) = {c \in [1..config.hyperplane_count -> BOOLEAN] :
                          Hamming(c, bits) <= 1}

\* nearest_points_set has returned a set.
SetReturned == pc = "idle" /\ call.op = "nearest_points_set" /\ ret.outcome = "ok"

\* The returned set is the union over the sub-indices of the buckets at the
\* point's key and at the keys one bit away from it.
SetIsUnionOfNearBuckets ==
    SetReturned =>
        ret.value = UNION {NearBuckets(indices[i],
                                       HyperIndex_key(indices[i], call.vector).value) :
                             i \in DOMAIN indices}

\* Without planes the call does not fail, whatever the vector.
NoPlanesNoFailure ==
    (pc = "idle" /\ call.op = "nearest_points_set" /\ config.hyperplane_count = 0)
        => ret.outcome = "ok"

\* Without planes every item ever added is a candidate.
NoPlanesAllCandidates ==
    (SetReturned /\ config.hyperplane_count = 0)
        => {e.key : e \in added} \subseteq ret.value

\* C9 as stated: for every H >= 0 and L >= 0, nearest_points_set(point) is the
\* union over the sub-indices of the buckets at key_i(point) and at the H keys
\* one bit away; vary_key yields H+1 distinct keys of length H; for H = 0 the
\* call does not fail and every item ever added is in the candidate set.
C9_ProbesKeyAndNeighbours ==
    /\ VaryKeyShape
    /\ SetIsUnionOfNearBuckets
    /\ NoPlanesNoFailure
    /\ NoPlanesAllCandidates

\* C9 amended: as stated, but for H = 0 every item ever added is in the
\* candidate set only when the index has at least one table (L >= 1).
C9_ProbesKeyAndNeighboursIfTables ==
    /\ VaryKeyShape
    /\ SetIsUnionOfNearBuckets
    /\ NoPlanesNoFailure
    /\ Len(indices) >= 1 => NoPlanesAllCandidates

\* C9 witness: with two planes, a query returned one of two added items; the
\* other sits in the bucket two bits away from the point's key.
C9_Witness ==
    /\ SetReturned
    /\ config.hyperplane_count = 2
    /\ Len(indices) = 1
    /\ Cardinality(ret.value) = 1
    /\ \E b \in DOMAIN indices[1].groups :
          /\ Hamming(b, HyperIndex_key(indices[1], call.vector).value) = 2
          /\ Range(indices[1].groups[b]) \cap ret.value = {}

\* a <= b on f32 values (false when either is NaN).
f32_le(a, b) == ~is_nan(a) /\ ~is_nan(b) /\ a.num * b.den <= b.num * a.den

\* C7 as stated: autotune_planes returns a plane count whose average bucket
\* occupancy over the sample, as stats() reported it for the index the search
\* built with that many planes, is at most the target. It is stated of the
\* runs whose start estimate did not underflow, so that its refutation does
\* not rest on the underflow of C10.
C7_ReturnedAverageAtMostTarget ==
    (tune_pc = "returned" /\ ~underflow) =>
        /\ tune_ret \in DOMAIN reported
        /\ f32_le(reported[tune_ret], f32_of(group_size))

\* C7 amended: autotune_planes returns either 0, no index the search built
\* having reported an average above the target, or a plane count that the
\* search built and whose reported average is strictly above the target (the
\* best_group_avg of the search).
C7_ReturnedAverageAboveTarget ==
    tune_pc = "returned" =>
        \/ /\ tune_ret = 0
           /\ best_group_avg = f32_MAX
        \/ /\ tune_ret \in DOMAIN reported
           /\ reported[tune_ret] = best_group_avg
           /\ f32_gt(reported[tune_ret], f32_of(group_size))

\* C7 witness: without any underflow the search returned, on an average below
\* the target, a plane count above its start and below the last one built.
C7_Witness ==
    /\ tune_pc = "returned"
    /\ ~underflow
    /\ tune_ret > initial
    /\ planes < PlaneCeiling
    /\ planes > tune_ret

\* clamp on mathematical integers.
Clamp(x, lo, hi) == IF x < lo THEN lo ELSE IF x > hi THEN hi ELSE x

\* C10: the start is clamp(floor(log2 N) - floor(log2 T), 2, 255) - 2, computed
\* without unsigned underflow or overflow for every N >= 0 and T >= 1, also
\* when floor(log2 T) > floor(log2 N); the search starts in 0..=253 and the
\* returned plane count is in 0..=254.
C10_StartComputedWithoutUnderflow ==
    tune_pc # "start" =>
        /\ ~underflow
        /\ tune_pc # "panicked"
        /\ initial = Clamp(checked_ilog2_or_default(vectors_len)
                             - log2_floor_as_u32(group_size),
                           PlaneFloor, PlaneCeiling) - 2
        /\ initial \in 0..(PlaneCeiling - 2)
        /\ tune_pc = "returned" => tune_ret \in 0..(PlaneCeiling - 1)

====
